---- MODULE Spec2Model ----
(***************************************************************************)
(* TypedContract: the WorkflowState phase machine, the compile-error       *)
(* classification / retry engine, the orchestrator graph (run_workflow)    *)
(* and the control operations of the backend that launch it.               *)
(*                                                                         *)
(* Four specifications share the definitions below:                        *)
(*   SpecDecide the classifier, the retry engine and should_continue       *)
(*              applied as functions        (error_classifier.py, agent.py)*)
(*   SpecPhase  one in-memory WorkflowState driven by advance() and by     *)
(*              artifact / phase assignments           (workflow_state.py) *)
(*   SpecRun    one project whose orchestrator runs follow one another:    *)
(*              the graph node by node, with the Typecheck fan-out         *)
(*                                                     (backend agent.py)  *)
(*   Spec       the backend service: the persisted record, the request     *)
(*              handlers and the background runs they launch, interleaved  *)
(*                                              (backend main.py, agent.py)*)
(*                                                                         *)
(* Optional values are sequences of length at most one: None is << >> and  *)
(* a present value x is <<x>>.  Texts (generated code, analysis) are       *)
(* tokens; no decision of the program reads their content.  A compiler     *)
(* diagnostic is a record [patterns, location]: patterns are the levels    *)
(* whose pattern sets of error_classifier.py match its text, location is   *)
(* its line:col token.  Log lines (add_log) are display-only and are left  *)
(* out of these specifications.                                            *)
(***************************************************************************)
EXTENDS Integers, Sequences, FiniteSets, TLC

VARIABLES
    st,      \* SpecPhase, SpecRun: the WorkflowState object / persisted record
    op,      \* the operation that acted last (all specifications)
    ret,     \* SpecPhase, SpecDecide, SpecRun: what the last call / run returned
    pre,     \* SpecPhase, SpecDecide: what that operation was called on
    ag,      \* SpecRun: the AgentState of the run in progress
    route,   \* SpecRun: the node to run next and the last fan-out decision
    disk,    \* Spec: output/<project>/workflow_state.json
    files,   \* Spec, SpecRun: generated artifact files on the filesystem
    tasks,   \* Spec: the background tasks (one slot each)
    req,     \* Spec: the request handler between its load and its save
    nreq     \* Spec, SpecRun: requests received so far (bounds the exploration)

vars == <<st, op, ret, pre, ag, route, disk, files, tasks, req, nreq>>

None == << >>
Some(x) == <<x>>

----------------------------------------------------------------------------
(* Phase and WorkflowState (src/agent/workflow_state.py)                    *)

INPUT == "InputPhase"
ANALYSIS == "AnalysisPhase"
SPEC_GENERATION == "SpecGenerationPhase"
COMPILATION == "CompilationPhase"
DOC_IMPL == "DocImplPhase"
DRAFT == "DraftPhase"
FEEDBACK == "FeedbackPhase"
REFINEMENT == "RefinementPhase"
FINAL == "FinalPhase"

\* the nine members in declaration order
PhaseOrder ==
    <<INPUT, ANALYSIS, SPEC_GENERATION, COMPILATION, DOC_IMPL, DRAFT,
      FEEDBACK, REFINEMENT, FINAL>>

Phase == {PhaseOrder[i] : i \in 1..Len(PhaseOrder)}

CompileResult(success, error_msg) == [success |-> success, error_msg |-> error_msg]

UserSatisfaction(satisfied, revision_request) ==
    [satisfied |-> satisfied, revision_request |-> revision_request]

\* the dataclass fields and their defaults, as create_initial_state fills them
CoreFields(user_prompt, reference_docs) ==
    [ current_phase     |-> INPUT,
      user_prompt       |-> user_prompt,
      reference_docs    |-> reference_docs,
      analysis_result   |-> None,
      spec_code         |-> None,
      spec_file         |-> None,
      compile_attempts  |-> 0,
      compile_result    |-> None,
      documentable_impl |-> None,
      pipeline_impl     |-> None,
      draft_text        |-> None,
      draft_markdown    |-> None,
      draft_csv         |-> None,
      version           |-> 1,
      feedback_history  |-> << >>,
      user_satisfaction |-> None,
      generate_pdf      |-> FALSE,
      final_pdf_path    |-> None,
      completed         |-> FALSE ]

\* the fields the backend's WorkflowState adds (error handling, pause, activity)
BackendFields ==
    [ classified_error  |-> None,
      error_strategy    |-> None,
      error_history     |-> << >>,
      error_suggestion  |-> None,
      is_paused         |-> FALSE,
      pause_reason      |-> None,
      resume_options    |-> << >>,
      is_active         |-> FALSE ]

create_initial_state(user_prompt, reference_docs) ==
    CoreFields(user_prompt, reference_docs) @@ BackendFields

input_phase_complete(s) == s.user_prompt # None /\ Len(s.reference_docs) > 0

analysis_phase_complete(s) == s.analysis_result # None

spec_generation_phase_complete(s) == s.spec_code # None /\ s.spec_file # None

compilation_phase_complete(s) ==
    s.compile_result # None /\ s.compile_result[1].success

doc_impl_phase_complete(s) == s.documentable_impl # None /\ s.pipeline_impl # None

draft_phase_complete(s) == s.draft_text # None \/ s.draft_markdown # None

workflow_complete(s) == s.completed /\ s.current_phase = FINAL

can_advance_broken(s) ==
    CASE s.current_phase = INPUT -> input_phase_complete(s)
      [] s.current_phase = ANALYSIS -> analysis_phase_complete(s)
      [] s.current_phase = SPEC_GENERATION -> s.spec_code # None
      [] s.current_phase = COMPILATION -> s.compile_result # None
      [] s.current_phase = DOC_IMPL -> doc_impl_phase_complete(s)
      [] s.current_phase = DRAFT -> s.draft_text # None
      [] s.current_phase = FEEDBACK -> TRUE
      [] s.current_phase = REFINEMENT -> TRUE
      [] s.current_phase = FINAL -> TRUE

can_advance(s) ==
    CASE s.current_phase = INPUT -> input_phase_complete(s)
      [] s.current_phase = ANALYSIS -> analysis_phase_complete(s)
      [] s.current_phase = SPEC_GENERATION -> spec_generation_phase_complete(s)
      [] s.current_phase = COMPILATION -> compilation_phase_complete(s)
      [] s.current_phase = DOC_IMPL -> doc_impl_phase_complete(s)
      [] s.current_phase = DRAFT -> draft_phase_complete(s)
      [] s.current_phase = FEEDBACK -> TRUE
      [] s.current_phase = REFINEMENT -> s.user_satisfaction # None
      [] s.current_phase = FINAL -> TRUE

\* a table that sends Refinement on to Final instead of back to Draft
next_phase_linear(p) ==
    CASE p = INPUT -> ANALYSIS
      [] p = ANALYSIS -> SPEC_GENERATION
      [] p = SPEC_GENERATION -> COMPILATION
      [] p = COMPILATION -> DOC_IMPL
      [] p = DOC_IMPL -> DRAFT
      [] p = DRAFT -> FEEDBACK
      [] p = FEEDBACK -> REFINEMENT
      [] p = REFINEMENT -> FINAL
      [] p = FINAL -> FINAL

next_phase(p) ==
    CASE p = INPUT -> ANALYSIS
      [] p = ANALYSIS -> SPEC_GENERATION
      [] p = SPEC_GENERATION -> COMPILATION
      [] p = COMPILATION -> DOC_IMPL
      [] p = DOC_IMPL -> DRAFT
      [] p = DRAFT -> FEEDBACK
      [] p = FEEDBACK -> REFINEMENT
      [] p = REFINEMENT -> DRAFT
      [] p = FINAL -> FINAL

\* advance() that moves the cursor without consulting can_advance
advance_unchecked(s) ==
    [state |-> [s EXCEPT !.current_phase = next_phase(s.current_phase)],
     result |-> TRUE]

\* advance(): the state afterwards and the boolean returned
advance(s) ==
    IF can_advance(s)
    THEN [state |-> [s EXCEPT !.current_phase = next_phase(s.current_phase)],
          result |-> TRUE]
    ELSE [state |-> s, result |-> FALSE]

----------------------------------------------------------------------------
(* Error classification and retry policy (src/agent/error_classifier.py)    *)

SYNTAX_ERROR == "syntax"
PROOF_FAILURE == "proof"
DOMAIN_ERROR == "domain"
UNKNOWN == "unknown"

ErrorLevel == {SYNTAX_ERROR, PROOF_FAILURE, DOMAIN_ERROR, UNKNOWN}

AUTO_FIX == "auto_fix"
ASK_USER == "ask_user"
FALLBACK == "fallback"
REANALYZE == "reanalyze"
TERMINATE == "terminate"

ErrorStrategy == {AUTO_FIX, ASK_USER, FALLBACK, REANALYZE, TERMINATE}

\* a diagnostic text: which pattern sets occur in it, and its first location token
\* <path>.idr:<line>:<col> (None when the text has none)
Location(line, col) == [line |-> line, col |-> col]

Diagnostic(patterns, location) == [patterns |-> patterns, location |-> location]

is_domain_error(message) == DOMAIN_ERROR \in message.patterns

is_proof_failure(message) == PROOF_FAILURE \in message.patterns

is_syntax_error(message) == SYNTAX_ERROR \in message.patterns

\* a classifier that looks for the Syntax patterns first
classify_error_level_syntax_first(message) ==
    IF is_syntax_error(message) THEN SYNTAX_ERROR
    ELSE IF is_domain_error(message) THEN DOMAIN_ERROR
    ELSE IF is_proof_failure(message) THEN PROOF_FAILURE
    ELSE UNKNOWN

classify_error_level(message) ==
    IF is_domain_error(message) THEN DOMAIN_ERROR
    ELSE IF is_proof_failure(message) THEN PROOF_FAILURE
    ELSE IF is_syntax_error(message) THEN SYNTAX_ERROR
    ELSE UNKNOWN

get_available_actions(level) ==
    CASE level = SYNTAX_ERROR -> <<"retry", "manual", "abort">>
      [] level = PROOF_FAILURE -> <<"fallback", "reanalyze", "manual", "abort">>
      [] level = DOMAIN_ERROR -> <<"reanalyze", "manual", "abort">>
      [] OTHER -> <<"retry", "manual", "abort">>

is_auto_fixable(level) == level = SYNTAX_ERROR

extract_location(message) ==
    IF message.location = None THEN None ELSE Some(message.location[1].line)

classify_error(message) ==
    [ level             |-> classify_error_level(message),
      location          |-> extract_location(message),
      available_actions |-> get_available_actions(classify_error_level(message)),
      auto_fixable      |-> is_auto_fixable(classify_error_level(message)) ]

DEFAULT_RETRY_POLICY ==
    [ max_syntax_retries |-> 3,
      max_proof_retries  |-> 0,
      max_domain_retries |-> 0,
      auto_retry_proof   |-> FALSE,
      auto_retry_domain  |-> FALSE ]

AGGRESSIVE_RETRY_POLICY ==
    [ max_syntax_retries |-> 5,
      max_proof_retries  |-> 2,
      max_domain_retries |-> 1,
      auto_retry_proof   |-> TRUE,
      auto_retry_domain  |-> TRUE ]

\* a retry test that allows one attempt more
should_retry_inclusive(policy, level, attempt_count) ==
    CASE level = SYNTAX_ERROR -> attempt_count <= policy.max_syntax_retries
      [] level = PROOF_FAILURE ->
            policy.auto_retry_proof /\ attempt_count <= policy.max_proof_retries
      [] level = DOMAIN_ERROR ->
            policy.auto_retry_domain /\ attempt_count <= policy.max_domain_retries
      [] OTHER -> attempt_count <= 1

should_retry(policy, level, attempt_count) ==
    CASE level = SYNTAX_ERROR -> attempt_count < policy.max_syntax_retries
      [] level = PROOF_FAILURE ->
            policy.auto_retry_proof /\ attempt_count < policy.max_proof_retries
      [] level = DOMAIN_ERROR ->
            policy.auto_retry_domain /\ attempt_count < policy.max_domain_retries
      [] OTHER -> attempt_count < 1

\* a decision that lets the policy retry Proof failures
decide_strategy_proof_by_policy(policy, error, attempt_count) ==
    CASE error.level = SYNTAX_ERROR ->
            IF attempt_count < policy.max_syntax_retries THEN AUTO_FIX ELSE TERMINATE
      [] error.level = PROOF_FAILURE ->
            IF policy.auto_retry_proof /\ attempt_count < policy.max_proof_retries
            THEN AUTO_FIX
            ELSE IF attempt_count = 0 THEN ASK_USER ELSE FALLBACK
      [] error.level = DOMAIN_ERROR ->
            IF attempt_count = 0 THEN REANALYZE ELSE TERMINATE
      [] OTHER ->
            IF attempt_count = 0 THEN ASK_USER ELSE TERMINATE

\* a decision that re-analyses Domain errors as often as the policy allows
decide_strategy_domain_by_policy(policy, error, attempt_count) ==
    CASE error.level = SYNTAX_ERROR ->
            IF attempt_count < policy.max_syntax_retries THEN AUTO_FIX ELSE TERMINATE
      [] error.level = PROOF_FAILURE ->
            IF attempt_count = 0 THEN ASK_USER ELSE FALLBACK
      [] error.level = DOMAIN_ERROR ->
            IF attempt_count <= policy.max_domain_retries THEN REANALYZE ELSE TERMINATE
      [] OTHER ->
            IF attempt_count = 0 THEN ASK_USER ELSE TERMINATE

decide_strategy(policy, error, attempt_count) ==
    CASE error.level = SYNTAX_ERROR ->
            IF should_retry(policy, SYNTAX_ERROR, attempt_count)
            THEN AUTO_FIX ELSE TERMINATE
      [] error.level = PROOF_FAILURE ->
            IF attempt_count = 0 THEN ASK_USER ELSE FALLBACK
      [] error.level = DOMAIN_ERROR ->
            IF attempt_count = 0 THEN REANALYZE ELSE TERMINATE
      [] OTHER ->
            IF attempt_count = 0 THEN ASK_USER ELSE TERMINATE

----------------------------------------------------------------------------
(* The orchestrator graph (src/backend/agent/agent.py)                      *)

ERROR_HISTORY_KEPT == 5
GUARD_WINDOW == 3

\* s[-n:]
LastN(s, n) == IF Len(s) <= n THEN s ELSE SubSeq(s, Len(s) - n + 1, Len(s))

\* the fingerprint of a diagnostic: the cleaned text with the location token
\* rewritten to basename:line; the column span is dropped
normalize_error_message(error_msg) ==
    [patterns |-> error_msg.patterns,
     line     |-> IF error_msg.location = None THEN None
                  ELSE Some(error_msg.location[1].line)]

RESUME_OPTIONS == <<"retry_with_new_prompt", "skip_validation", "manual_fix", "cancel">>

\* the keys of the AgentState dict run_workflow builds; the four pause keys are
\* absent (FALSE / None / empty here) until should_continue adds them
AgentState(analysis, idris_code, compile_attempts, last_error, compile_success, error_history, classified_error, error_strategy, final_module_path) ==
    [ analysis          |-> analysis,
      idris_code        |-> idris_code,
      compile_attempts  |-> compile_attempts,
      last_error        |-> last_error,
      compile_success   |-> compile_success,
      error_history     |-> error_history,
      classified_error  |-> classified_error,
      error_strategy    |-> error_strategy,
      final_module_path |-> final_module_path,
      error_suggestion  |-> None,
      is_paused         |-> FALSE,
      pause_reason      |-> None,
      resume_options    |-> << >> ]

analyze_document(state) == [state EXCEPT !.analysis = Some("analysis")]

generate_idris_code(state) == [state EXCEPT !.idris_code = Some("code")]

\* typecheck_code that does not count the attempt
typecheck_code_uncounted(state, success, output) ==
    LET counted == [state EXCEPT !.compile_success = success,
                                 !.last_error = IF success THEN None ELSE Some(output)]
    IN IF success
       THEN [counted EXCEPT !.final_module_path = Some("Domains/Module.idr"),
                            !.classified_error = None,
                            !.error_strategy = None,
                            !.error_history = << >>]
       ELSE [counted EXCEPT
                !.error_history =
                    LastN(Append(@, normalize_error_message(output)), ERROR_HISTORY_KEPT),
                !.classified_error = Some(classify_error(output)),
                !.error_strategy =
                    Some(decide_strategy(DEFAULT_RETRY_POLICY, classify_error(output),
                                         counted.compile_attempts))]

\* typecheck_code whose success branch leaves error_history alone
typecheck_code_keeps_history(state, success, output) ==
    LET counted == [state EXCEPT !.compile_attempts = @ + 1,
                                 !.compile_success = success,
                                 !.last_error = IF success THEN None ELSE Some(output)]
    IN IF success
       THEN [counted EXCEPT !.final_module_path = Some("Domains/Module.idr"),
                            !.classified_error = None,
                            !.error_strategy = None]
       ELSE [counted EXCEPT
                !.error_history =
                    LastN(Append(@, normalize_error_message(output)), ERROR_HISTORY_KEPT),
                !.classified_error = Some(classify_error(output)),
                !.error_strategy =
                    Some(decide_strategy(DEFAULT_RETRY_POLICY, classify_error(output),
                                         counted.compile_attempts))]

\* typecheck_code with the compile oracle's answer (success, output)
typecheck_code(state, success, output) ==
    LET counted == [state EXCEPT !.compile_attempts = @ + 1,
                                 !.compile_success = success,
                                 !.last_error = IF success THEN None ELSE Some(output)]
    IN IF success
       THEN [counted EXCEPT !.final_module_path = Some("Domains/Module.idr"),
                            !.classified_error = None,
                            !.error_strategy = None,
                            !.error_history = << >>]
       ELSE [counted EXCEPT
                !.error_history =
                    LastN(Append(@, normalize_error_message(output)), ERROR_HISTORY_KEPT),
                !.classified_error = Some(classify_error(output)),
                !.error_strategy =
                    Some(decide_strategy(DEFAULT_RETRY_POLICY, classify_error(output),
                                         counted.compile_attempts))]

fix_compilation_error(state) == [state EXCEPT !.idris_code = Some("fixed code")]

\* handle_user_decision with user_action = None, as run_workflow always sets it
handle_user_decision(state) == state

reanalyze_document(state) ==
    [state EXCEPT !.analysis = None, !.idris_code = None, !.compile_attempts = 0]

\* a guard that compares only the last two entries
guard_trips_on_two(error_history) ==
    /\ Len(error_history) >= 2
    /\ error_history[Len(error_history)] = error_history[Len(error_history) - 1]

\* the Repeated-Error Guard's test in should_continue
guard_trips(error_history) ==
    /\ Len(error_history) >= GUARD_WINDOW
    /\ LET last_three == LastN(error_history, GUARD_WINDOW)
       IN last_three[1] = last_three[2] /\ last_three[2] = last_three[3]

\* a strategy table that treats fallback as a failure
strategy_edge_fallback_fails(strategy) ==
    CASE strategy = Some(AUTO_FIX) -> "fix_error"
      [] strategy = Some(ASK_USER) -> "ask_user"
      [] strategy = Some(FALLBACK) -> "fail"
      [] strategy = Some(REANALYZE) -> "reanalyze"
      [] strategy = Some(TERMINATE) -> "fail"
      [] OTHER -> "fix_error"

strategy_edge(strategy) ==
    CASE strategy = Some(AUTO_FIX) -> "fix_error"
      [] strategy = Some(ASK_USER) -> "ask_user"
      [] strategy = Some(FALLBACK) -> "finish"
      [] strategy = Some(REANALYZE) -> "reanalyze"
      [] strategy = Some(TERMINATE) -> "fail"
      [] OTHER -> "fix_error"

\* should_continue that consults the strategy before the guard
should_continue_strategy_first(state) ==
    IF state.compile_success
    THEN [edge |-> "finish", state |-> state, saved |-> FALSE]
    ELSE IF state.error_strategy # Some(AUTO_FIX) /\ state.error_strategy # None
    THEN [edge |-> strategy_edge(state.error_strategy), state |-> state, saved |-> FALSE]
    ELSE IF guard_trips(state.error_history)
    THEN [edge |-> "ask_user",
          state |-> [state EXCEPT !.error_suggestion = Some("identical_error_3x"),
                                  !.is_paused = TRUE,
                                  !.pause_reason = Some("identical_error_3x"),
                                  !.resume_options = RESUME_OPTIONS],
          saved |-> TRUE]
    ELSE [edge |-> strategy_edge(state.error_strategy), state |-> state, saved |-> FALSE]

\* should_continue: the edge returned, the state dict as it leaves it, and whether
\* save_state_to_file wrote that dict to workflow_state.json
should_continue(state) ==
    IF state.compile_success
    THEN [edge |-> "finish", state |-> state, saved |-> FALSE]
    ELSE IF guard_trips(state.error_history)
    THEN [edge |-> "ask_user",
          state |-> [state EXCEPT !.error_suggestion = Some("identical_error_3x"),
                                  !.is_paused = TRUE,
                                  !.pause_reason = Some("identical_error_3x"),
                                  !.resume_options = RESUME_OPTIONS],
          saved |-> TRUE]
    ELSE [edge |-> strategy_edge(state.error_strategy), state |-> state, saved |-> FALSE]

\* the node each edge of the conditional fan-out leads to
edge_target(edge) ==
    CASE edge = "finish" -> "gen_documentable"
      [] edge = "fail" -> "END"
      [] edge = "fix_error" -> "fix_error"
      [] edge = "ask_user" -> "ask_user"
      [] edge = "reanalyze" -> "reanalyze"

\* the artifact files the graph writes: DomainToDoc/<M>.idr, Pipeline/<M>.idr and
\* the three drafts under output/<project>/
DOCUMENTABLE_FILE == "documentable"
PIPELINE_FILE == "pipeline"
TEXT_FILE == "text"
CSV_FILE == "csv"
MARKDOWN_FILE == "markdown"

\* run_workflow, before the graph: WorkflowState -> AgentState
agent_state_of(workflow_state) ==
    AgentState(workflow_state.analysis_result,
               workflow_state.spec_code,
               workflow_state.compile_attempts,
               IF workflow_state.compile_result # None
               THEN workflow_state.compile_result[1].error_msg ELSE None,
               compilation_phase_complete(workflow_state),
               workflow_state.error_history,
               workflow_state.classified_error,
               workflow_state.error_strategy,
               workflow_state.spec_file)

\* run_workflow, before the graph: Phase 1 is taken as done
enter_phase(workflow_state) ==
    IF workflow_state.current_phase = INPUT
    THEN [workflow_state EXCEPT !.current_phase = ANALYSIS]
    ELSE workflow_state

\* the artifacts and the phase run_workflow reads back after a successful compile
reflect_success(workflow_state, fs) ==
    LET w1 == [workflow_state EXCEPT
                  !.compile_result = Some(CompileResult(TRUE, None)),
                  !.documentable_impl =
                      IF DOCUMENTABLE_FILE \in fs THEN Some("documentable") ELSE @,
                  !.pipeline_impl = IF PIPELINE_FILE \in fs THEN Some("pipeline") ELSE @,
                  !.draft_text = IF TEXT_FILE \in fs THEN Some("text") ELSE @,
                  !.draft_csv = IF CSV_FILE \in fs THEN Some("csv") ELSE @,
                  !.draft_markdown = IF MARKDOWN_FILE \in fs THEN Some("markdown") ELSE @]
    IN [w1 EXCEPT !.current_phase =
            IF w1.draft_text # None \/ w1.draft_markdown # None THEN FEEDBACK
            ELSE IF w1.documentable_impl # None /\ w1.pipeline_impl # None THEN DRAFT
            ELSE DOC_IMPL]

\* run_workflow that forgets the generated code when the compile failed
run_workflow_result_drops_code(workflow_state, result, fs) ==
    LET w0 == [workflow_state EXCEPT
                  !.analysis_result = result.analysis,
                  !.spec_code = IF result.compile_success THEN result.idris_code ELSE None,
                  !.spec_file = result.final_module_path,
                  !.compile_attempts = result.compile_attempts,
                  !.error_history = result.error_history]
    IN IF result.compile_success
       THEN reflect_success(w0, fs)
       ELSE [w0 EXCEPT !.compile_result = Some(CompileResult(FALSE, result.last_error))]

\* run_workflow, after the graph: the result dict folded into the WorkflowState
run_workflow_result(workflow_state, result, fs) ==
    LET w0 == [workflow_state EXCEPT
                  !.analysis_result = result.analysis,
                  !.spec_code = result.idris_code,
                  !.spec_file = result.final_module_path,
                  !.compile_attempts = result.compile_attempts,
                  !.error_history = result.error_history]
    IN IF result.compile_success
       THEN reflect_success(w0, fs)
       ELSE [w0 EXCEPT !.compile_result = Some(CompileResult(FALSE, result.last_error))]

\* what one node of the compiled graph can do to the state dict `a` when it is
\* the node `n` to run: the state after it, the node scheduled next ("raised"
\* when the LLM call raised out of app.invoke), the artifact files afterwards, and
\* whether should_continue wrote its snapshot.  The conditional edge
\* should_continue is evaluated in the step of the typecheck node.
NodeResult(a, n, fs, saved) ==
    [ag |-> a, node |-> n, files |-> fs, saved |-> saved, edge |-> None, checked |-> None]

\* the typecheck node followed by the conditional edge: `checked` is the state
\* should_continue was handed, `edge` the label it returned
after_typecheck(a, fs) ==
    LET r == should_continue(a)
    IN [NodeResult(r.state, edge_target(r.edge), fs, r.saved)
            EXCEPT !.edge = Some(r.edge), !.checked = Some(a)]

node_outcomes(a, n, fs, diagnostics, renderings) ==
    CASE n = "analyze" ->
            {NodeResult(analyze_document(a), "generate", fs, FALSE),
             NodeResult(a, "raised", fs, FALSE)}
      [] n = "generate" ->
            {NodeResult(generate_idris_code(a), "typecheck", fs, FALSE),
             NodeResult(a, "raised", fs, FALSE)}
      [] n = "typecheck" ->
            {after_typecheck(typecheck_code(a, TRUE, None), fs)}
            \cup {after_typecheck(typecheck_code(a, FALSE, d), fs) : d \in diagnostics}
      [] n = "fix_error" ->
            {NodeResult(fix_compilation_error(a), "typecheck", fs, FALSE),
             NodeResult(a, "raised", fs, FALSE)}
      [] n = "ask_user" ->
            {NodeResult(handle_user_decision(a), "END", fs, FALSE)}
      [] n = "reanalyze" ->
            {NodeResult(reanalyze_document(a), "analyze", fs, FALSE)}
      [] n = "gen_documentable" ->
            {NodeResult(a, "gen_pipeline", fs \cup {DOCUMENTABLE_FILE}, FALSE),
             NodeResult(a, "raised", fs, FALSE)}
      [] n = "gen_pipeline" ->
            {NodeResult(a, "gen_draft", fs \cup {PIPELINE_FILE}, FALSE),
             NodeResult(a, "raised", fs, FALSE)}
      [] n = "gen_draft" ->
            {NodeResult(a, "END", fs \cup rendered, FALSE) : rendered \in renderings}

----------------------------------------------------------------------------
(* Control operations (src/backend/agent/main.py)                           *)

\* WorkflowState.mark_active / mark_inactive of the backend
mark_active(state) == [state EXCEPT !.is_active = TRUE]

mark_inactive(state) == [state EXCEPT !.is_active = FALSE]

\* the text of an exception, as the handlers store it in compile_result.error_msg
ExceptionText(prefix) == [exception |-> prefix]

\* a request text counts as given when it is not None and not empty
Given(text) == text # None /\ text[1] # << >>

\* submit_feedback, up to its save
submit_feedback_apply(state, feedback) ==
    [state EXCEPT !.feedback_history = Append(@, feedback),
                  !.user_satisfaction = Some(UserSatisfaction(FALSE, Some(feedback))),
                  !.current_phase = FEEDBACK]

\* regenerate, up to its call of run_workflow
regenerate_prepare(state, feedback) ==
    [state EXCEPT !.version = @ + 1,
                  !.current_phase = REFINEMENT,
                  !.user_prompt =
                      Some((IF state.user_prompt = None THEN << >> ELSE state.user_prompt[1])
                           \o <<"[Revision Request]", feedback>>)]

\* resume_project that keeps the generated code when the prompt is replaced
resume_project_apply_keeps_code(state, updated_prompt, restart_from_analysis) ==
    LET w1 == IF Given(updated_prompt)
              THEN [state EXCEPT !.user_prompt = updated_prompt] ELSE state
        w2 == IF restart_from_analysis \/ Given(updated_prompt)
              THEN [w1 EXCEPT !.current_phase = ANALYSIS,
                              !.analysis_result = None,
                              !.compile_attempts = 0]
              ELSE w1
    IN mark_active([w2 EXCEPT !.compile_result = None,
                              !.classified_error = None,
                              !.error_strategy = None])

\* resume_project, from the prompt update to mark_active
resume_project_apply(state, updated_prompt, restart_from_analysis) ==
    LET w1 == IF Given(updated_prompt)
              THEN [state EXCEPT !.user_prompt = updated_prompt] ELSE state
        w2 == IF restart_from_analysis \/ Given(updated_prompt)
              THEN [w1 EXCEPT !.current_phase = ANALYSIS,
                              !.analysis_result = None,
                              !.spec_code = None,
                              !.compile_attempts = 0]
              ELSE w1
    IN mark_active([w2 EXCEPT !.compile_result = None,
                              !.classified_error = None,
                              !.error_strategy = None])

AUTOPAUSE_OPTIONS ==
    {"retry_with_new_prompt", "retry_with_more_docs", "skip_validation", "manual_fix",
     "cancel"}

\* resume_from_autopause: the branch of the chosen option
autopause_option_apply(state, option, new_prompt, new_docs) ==
    CASE option = "retry_with_new_prompt" ->
            [state EXCEPT !.user_prompt = new_prompt,
                          !.current_phase = ANALYSIS,
                          !.analysis_result = None,
                          !.spec_code = None,
                          !.compile_attempts = 0,
                          !.error_history = << >>]
      [] option = "retry_with_more_docs" ->
            [state EXCEPT !.reference_docs = @ \o new_docs,
                          !.current_phase = ANALYSIS,
                          !.analysis_result = None,
                          !.spec_code = None,
                          !.compile_attempts = 0,
                          !.error_history = << >>]
      [] option = "skip_validation" ->
            [state EXCEPT !.current_phase = DOC_IMPL,
                          !.compile_attempts = 0,
                          !.error_history = << >>]
      [] option = "manual_fix" ->
            [state EXCEPT !.compile_attempts = 0, !.error_history = << >>]
      [] option = "cancel" ->
            [state EXCEPT !.completed = TRUE, !.current_phase = FINAL, !.is_paused = FALSE]

\* resume_from_autopause, after the option: the pause is released
autopause_release(state) ==
    mark_active([state EXCEPT !.is_paused = FALSE,
                              !.pause_reason = None,
                              !.resume_options = << >>,
                              !.compile_result = None,
                              !.classified_error = None,
                              !.error_strategy = None])

\* skip_validation, up to its save
skip_validation_apply(state) ==
    mark_active([state EXCEPT !.current_phase = DOC_IMPL,
                              !.compile_attempts = 0,
                              !.error_history = << >>,
                              !.is_paused = FALSE])

\* the except branch of run_generation and of the two resume_workflow closures
record_run_error(error_state, error_msg) ==
    mark_inactive([error_state EXCEPT
                      !.compile_result = Some(CompileResult(FALSE, Some(error_msg)))])

----------------------------------------------------------------------------
(* Spec: the backend service                                                *)

MaxTasks == 2
MaxRequests == 3

Slots == 1..MaxTasks

\* the diagnostics the compile oracle answers with, and what the renderers produce
DiagnosticsSeen == { Diagnostic({SYNTAX_ERROR}, Some(Location(38, 20))) }

RenderingsSeen == { {}, {TEXT_FILE, CSV_FILE, MARKDOWN_FILE} }

PromptsGiven == { <<"new prompt">> }
FeedbackGiven == { "feedback" }
DocsGiven == { <<"more.pdf">> }

\* WorkflowState.save writes the record; save_state_to_file writes the state dict
save(state) == [kind |-> "state", rec |-> state]

save_state_to_file(state) == [kind |-> "dump", rec |-> state]

\* WorkflowState.load can read what save wrote; on the state dict it raises
Loadable(file) == file.kind = "state"

IdleTask ==
    [kind |-> "none", pc |-> "idle", ws |-> None, ag |-> None, node |-> "none",
     feedback |-> None]

Launched(kind, pc, ws, feedback) ==
    [kind |-> kind, pc |-> pc, ws |-> ws, ag |-> None, node |-> "none",
     feedback |-> feedback]

Idle(t) == tasks[t].pc = "idle"

FreeSlot == CHOOSE t \in Slots : Idle(t) /\ \A u \in Slots : Idle(u) => t <= u

Event(name, status) == [name |-> name, status |-> status, tripped |-> FALSE]

RunEnd(kind, status, tripped) == [name |-> kind, status |-> status, tripped |-> tripped]

ServiceVarsOnly == UNCHANGED <<st, ret, pre, ag, route>>

\* a request is received: the event loop runs one handler at a time
Receive ==
    /\ req = None
    /\ nreq < MaxRequests
    /\ nreq' = nreq + 1
    /\ ServiceVarsOnly

Init ==
    /\ disk = save(create_initial_state(Some(<<"prompt">>), <<"doc.pdf">>))
    /\ files = {}
    /\ tasks = [t \in Slots |-> IdleTask]
    /\ req = None
    /\ nreq = 0
    /\ op = Event("initialize_project", "200")
    /\ st = None
    /\ ret = None
    /\ pre = None
    /\ ag = None
    /\ route = None

\* POST /api/project/init
initialize_project ==
    /\ Receive
    /\ \E reference_docs \in {<< >>, <<"doc.pdf">>} :
          disk' = save(create_initial_state(Some(<<"prompt">>), reference_docs))
    /\ op' = Event("initialize_project", "200")
    /\ UNCHANGED <<files, tasks, req>>

\* POST /generate
generate_spec ==
    /\ Receive
    /\ \E t \in Slots : Idle(t)
    /\ IF ~Loadable(disk)
       THEN /\ op' = Event("generate_spec", "500")
            /\ UNCHANGED tasks
       ELSE IF ~input_phase_complete(disk.rec)
       THEN /\ op' = Event("generate_spec", "400")
            /\ UNCHANGED tasks
       ELSE /\ op' = Event("generate_spec", "200")
            /\ tasks' = [tasks EXCEPT ![FreeSlot] = Launched("generate", "load", None, None)]
    /\ UNCHANGED <<disk, files, req>>

\* POST /feedback, up to state.save
submit_feedback ==
    /\ Receive
    /\ \E t \in Slots : Idle(t)
    /\ IF ~Loadable(disk)
       THEN /\ op' = Event("submit_feedback", "500")
            /\ UNCHANGED req
       ELSE IF ~draft_phase_complete(disk.rec)
       THEN /\ op' = Event("submit_feedback", "400")
            /\ UNCHANGED req
       ELSE \E feedback \in FeedbackGiven :
            /\ op' = Event("submit_feedback", "loaded")
            /\ req' = Some([name |-> "submit_feedback",
                            state |-> submit_feedback_apply(disk.rec, feedback),
                            launch |-> TRUE,
                            feedback |-> Some(feedback)])
    /\ UNCHANGED <<disk, files, tasks>>

\* POST /resume, up to state.save
resume_project ==
    /\ Receive
    /\ \E t \in Slots : Idle(t)
    /\ IF ~Loadable(disk)
       THEN /\ op' = Event("resume_project", "500")
            /\ UNCHANGED req
       ELSE IF disk.rec.completed \/ disk.rec.current_phase = INPUT
       THEN /\ op' = Event("resume_project", "400")
            /\ UNCHANGED req
       ELSE \E updated_prompt \in {None} \cup {Some(p) : p \in PromptsGiven \cup {<< >>}},
               restart_from_analysis \in BOOLEAN :
            /\ op' = Event("resume_project", "loaded")
            /\ req' = Some([name |-> "resume_project",
                            state |-> resume_project_apply(disk.rec, updated_prompt,
                                                           restart_from_analysis),
                            launch |-> TRUE,
                            feedback |-> None,
                            prompt |-> updated_prompt])
    /\ UNCHANGED <<disk, files, tasks>>

\* POST /resume-autopause, up to state.save
resume_from_autopause ==
    /\ Receive
    /\ \E t \in Slots : Idle(t)
    /\ IF ~Loadable(disk)
       THEN /\ op' = Event("resume_from_autopause", "500")
            /\ UNCHANGED req
       ELSE IF ~disk.rec.is_paused
       THEN /\ op' = Event("resume_from_autopause", "400")
            /\ UNCHANGED req
       ELSE \E option \in AUTOPAUSE_OPTIONS \cup {"other"},
               new_prompt \in PromptsGiven, new_docs \in DocsGiven :
            IF option \notin AUTOPAUSE_OPTIONS
            THEN /\ op' = Event("resume_from_autopause", "400")
                 /\ UNCHANGED req
            ELSE /\ op' = Event("resume_from_autopause", "loaded")
                 /\ req' = Some([name |-> "resume_from_autopause",
                                 state |->
                                    IF option = "cancel"
                                    THEN autopause_option_apply(disk.rec, option,
                                                                Some(new_prompt), new_docs)
                                    ELSE autopause_release(
                                            autopause_option_apply(disk.rec, option,
                                                                   Some(new_prompt), new_docs)),
                                 launch |-> option # "cancel",
                                 feedback |-> None])
    /\ UNCHANGED <<disk, files, tasks>>

\* POST /skip-validation, up to state.save
skip_validation ==
    /\ Receive
    /\ \E t \in Slots : Idle(t)
    /\ IF ~Loadable(disk)
       THEN /\ op' = Event("skip_validation", "500")
            /\ UNCHANGED req
       ELSE /\ op' = Event("skip_validation", "loaded")
            /\ req' = Some([name |-> "skip_validation",
                            state |-> skip_validation_apply(disk.rec),
                            launch |-> TRUE,
                            feedback |-> None])
    /\ UNCHANGED <<disk, files, tasks>>

\* POST /abort, up to state.save
abort_project ==
    /\ Receive
    /\ IF ~Loadable(disk)
       THEN /\ op' = Event("abort_project", "500")
            /\ UNCHANGED req
       ELSE IF ~disk.rec.is_active
       THEN /\ op' = Event("abort_project", "400")
            /\ UNCHANGED req
       ELSE /\ op' = Event("abort_project", "loaded")
            /\ req' = Some([name |-> "abort_project",
                            state |-> mark_inactive(disk.rec),
                            launch |-> FALSE,
                            feedback |-> None])
    /\ UNCHANGED <<disk, files, tasks>>

\* state.save(...) of the handler, background_tasks.add_task and the response
handler_save ==
    /\ req # None
    /\ disk' = save(req[1].state)
    /\ tasks' =
          IF ~req[1].launch THEN tasks
          ELSE [tasks EXCEPT ![FreeSlot] =
                  IF req[1].name = "submit_feedback"
                  THEN Launched("submit_feedback", "load", Some(req[1].state),
                                req[1].feedback)
                  ELSE Launched(req[1].name, "load", None, None)]
    /\ req' = None
    /\ op' = Event(req[1].name, "200")
    /\ UNCHANGED <<files, nreq>>
    /\ ServiceVarsOnly

\* the background function starts: it loads the state (regenerate uses the
\* handler's object instead) and calls run_workflow, which builds the AgentState
task_start(t) ==
    /\ tasks[t].pc = "load"
    /\ IF tasks[t].kind = "submit_feedback"
       THEN LET w == regenerate_prepare(tasks[t].ws[1], tasks[t].feedback[1])
            IN /\ tasks' = [tasks EXCEPT ![t].pc = "invoke",
                                         ![t].ws = Some(enter_phase(w)),
                                         ![t].ag = Some(agent_state_of(w)),
                                         ![t].node = "analyze"]
               /\ op' = Event("task_start", tasks[t].kind)
       ELSE IF ~Loadable(disk)
       THEN /\ tasks' = [tasks EXCEPT ![t] = IdleTask]
            /\ op' = RunEnd(tasks[t].kind, "load raised", FALSE)
       ELSE /\ tasks' = [tasks EXCEPT ![t].pc = "invoke",
                                      ![t].ws = Some(enter_phase(disk.rec)),
                                      ![t].ag = Some(agent_state_of(disk.rec)),
                                      ![t].node = "analyze"]
            /\ op' = Event("task_start", tasks[t].kind)
    /\ UNCHANGED <<disk, files, req, nreq>>
    /\ ServiceVarsOnly

\* app.invoke runs the next node of the graph
task_node(t) ==
    /\ tasks[t].pc = "invoke"
    /\ tasks[t].node \notin {"END", "raised"}
    /\ \E o \in node_outcomes(tasks[t].ag[1], tasks[t].node, files, DiagnosticsSeen,
                              RenderingsSeen) :
          /\ tasks' = [tasks EXCEPT ![t].ag = Some(o.ag), ![t].node = o.node]
          /\ files' = o.files
          /\ disk' = IF o.saved THEN save_state_to_file(o.ag) ELSE disk
    /\ op' = Event("task_node", tasks[t].kind)
    /\ UNCHANGED <<req, nreq>>
    /\ ServiceVarsOnly

\* app.invoke returned: run_workflow folds the result in and the caller saves
task_return(t) ==
    /\ tasks[t].pc = "invoke"
    /\ tasks[t].node = "END"
    /\ LET updated_state == run_workflow_result(tasks[t].ws[1], tasks[t].ag[1], files)
       IN disk' = CASE tasks[t].kind = "generate" -> save(updated_state)
                    [] tasks[t].kind = "submit_feedback" ->
                          save([updated_state EXCEPT !.current_phase = DRAFT])
                    [] OTHER -> save(mark_inactive(updated_state))
    /\ tasks' = [tasks EXCEPT ![t] = IdleTask]
    /\ op' = RunEnd(tasks[t].kind, "returned", tasks[t].ag[1].is_paused)
    /\ UNCHANGED <<files, req, nreq>>
    /\ ServiceVarsOnly

\* app.invoke raised: the except branch of the background function, up to its save
task_except(t) ==
    /\ tasks[t].pc = "invoke"
    /\ tasks[t].node = "raised"
    /\ CASE tasks[t].kind = "skip_validation" ->
              /\ tasks' = [tasks EXCEPT ![t] = IdleTask]
              /\ op' = RunEnd(tasks[t].kind, "raised", FALSE)
         [] tasks[t].kind = "submit_feedback" ->
              /\ tasks' = [tasks EXCEPT
                    ![t].pc = "error save",
                    ![t].ws = Some([tasks[t].ws[1] EXCEPT !.compile_result =
                                Some(CompileResult(FALSE, Some(ExceptionText("")))) ])]
              /\ op' = Event("task_except", tasks[t].kind)
         [] OTHER ->
              IF ~Loadable(disk)
              THEN /\ tasks' = [tasks EXCEPT ![t] = IdleTask]
                   /\ op' = RunEnd(tasks[t].kind, "load raised", FALSE)
              ELSE /\ tasks' = [tasks EXCEPT
                         ![t].pc = "error save",
                         ![t].ws = Some(record_run_error(disk.rec,
                                        ExceptionText(IF tasks[t].kind = "generate"
                                                      THEN "Workflow error: "
                                                      ELSE "Resume error: ")))]
                   /\ op' = Event("task_except", tasks[t].kind)
    /\ UNCHANGED <<disk, files, req, nreq>>
    /\ ServiceVarsOnly

\* error_state.save(...) at the end of the except branch
task_error_save(t) ==
    /\ tasks[t].pc = "error save"
    /\ disk' = save(tasks[t].ws[1])
    /\ tasks' = [tasks EXCEPT ![t] = IdleTask]
    /\ op' = RunEnd(tasks[t].kind, "raised", FALSE)
    /\ UNCHANGED <<files, req, nreq>>
    /\ ServiceVarsOnly

Next ==
    \/ initialize_project
    \/ generate_spec
    \/ submit_feedback
    \/ resume_project
    \/ resume_from_autopause
    \/ skip_validation
    \/ abort_project
    \/ handler_save
    \/ \E t \in Slots : task_start(t)
    \/ \E t \in Slots : task_node(t)
    \/ \E t \in Slots : task_return(t)
    \/ \E t \in Slots : task_except(t)
    \/ \E t \in Slots : task_error_save(t)

Spec == Init /\ [][Next]_vars

----------------------------------------------------------------------------
(* SpecRun: one project, its orchestrator runs one after another            *)

MaxRuns == 4

\* the compile oracle's answers: two syntax errors at the same line (their
\* fingerprints coincide), a syntax error at another line, a proof failure and
\* a domain error
DiagnosticsRun ==
    { Diagnostic({SYNTAX_ERROR}, Some(Location(38, 20))),
      Diagnostic({SYNTAX_ERROR}, Some(Location(38, 5))),
      Diagnostic({SYNTAX_ERROR}, Some(Location(40, 1))),
      Diagnostic({PROOF_FAILURE}, Some(Location(12, 3))),
      Diagnostic({DOMAIN_ERROR}, Some(Location(7, 1))) }

NoRoute == [kind |-> "none", node |-> "none", edge |-> None, checked |-> None]

RunVarsOnly == UNCHANGED <<op, pre, disk, tasks, req>>

InitRun ==
    /\ st = create_initial_state(Some(<<"prompt">>), <<"doc.pdf">>)
    /\ ag = None
    /\ route = NoRoute
    /\ files = {}
    /\ nreq = 0
    /\ op = Event("initialize_project", "200")
    /\ ret = None
    /\ pre = None
    /\ disk = None
    /\ tasks = << >>
    /\ req = None

\* POST /generate and the start of run_generation: load, then run_workflow
\* builds the AgentState
run_generation ==
    /\ ag = None
    /\ nreq < MaxRuns
    /\ input_phase_complete(st)
    /\ nreq' = nreq + 1
    /\ ag' = Some(agent_state_of(st))
    /\ route' = [NoRoute EXCEPT !.kind = "generate", !.node = "analyze"]
    /\ ret' = None
    /\ UNCHANGED <<st, files>>
    /\ RunVarsOnly

\* POST /resume and the start of resume_workflow
resume_workflow ==
    /\ ag = None
    /\ nreq < MaxRuns
    /\ ~st.completed
    /\ st.current_phase # INPUT
    /\ nreq' = nreq + 1
    /\ \E restart_from_analysis \in BOOLEAN :
          LET state == resume_project_apply(st, None, restart_from_analysis)
          IN /\ st' = state
             /\ ag' = Some(agent_state_of(state))
    /\ route' = [NoRoute EXCEPT !.kind = "resume_project", !.node = "analyze"]
    /\ ret' = None
    /\ UNCHANGED files
    /\ RunVarsOnly

\* app.invoke runs the next node of the graph
run_node ==
    /\ ag # None
    /\ route.node \notin {"END", "raised"}
    /\ \E o \in node_outcomes(ag[1], route.node, files, DiagnosticsRun, RenderingsSeen) :
          /\ ag' = Some(o.ag)
          /\ files' = o.files
          /\ route' = [route EXCEPT !.node = o.node, !.edge = o.edge,
                                    !.checked = o.checked]
    /\ UNCHANGED <<st, nreq, ret>>
    /\ RunVarsOnly

\* app.invoke returned: run_workflow folds the result in and the caller saves;
\* ret keeps the result dict app.invoke returned
run_return ==
    /\ ag # None
    /\ route.node = "END"
    /\ LET updated_state == run_workflow_result(enter_phase(st), ag[1], files)
       IN st' = IF route.kind = "generate" THEN updated_state
                ELSE mark_inactive(updated_state)
    /\ ret' = ag
    /\ ag' = None
    /\ route' = NoRoute
    /\ UNCHANGED <<files, nreq>>
    /\ RunVarsOnly

\* app.invoke raised: the except branch reloads the state and records the error
run_except ==
    /\ ag # None
    /\ route.node = "raised"
    /\ st' = record_run_error(st, ExceptionText(IF route.kind = "generate"
                                                THEN "Workflow error: "
                                                ELSE "Resume error: "))
    /\ ret' = None
    /\ ag' = None
    /\ route' = NoRoute
    /\ UNCHANGED <<files, nreq>>
    /\ RunVarsOnly

NextRun ==
    \/ run_generation
    \/ resume_workflow
    \/ run_node
    \/ run_return
    \/ run_except

SpecRun == InitRun /\ [][NextRun]_vars

----------------------------------------------------------------------------
(* SpecDecide: the classifier, the retry engine and the fan-out as functions *)

MaxAttemptCount == 6
MaxRetries == 2
MaxHistory == 3

\* diagnostics matching every combination of the three pattern sets
DiagnosticsClassified ==
    { Diagnostic(patterns, location) :
        patterns \in SUBSET {SYNTAX_ERROR, PROOF_FAILURE, DOMAIN_ERROR},
        location \in {None, Some(Location(38, 20))} }

\* the two shipped policies and others with small limits
PoliciesTried ==
    {DEFAULT_RETRY_POLICY, AGGRESSIVE_RETRY_POLICY} \cup
    { [ max_syntax_retries |-> m,
        max_proof_retries  |-> 1,
        max_domain_retries |-> 1,
        auto_retry_proof   |-> b,
        auto_retry_domain  |-> b ] : m \in 0..MaxRetries, b \in BOOLEAN }

Fingerprints ==
    { normalize_error_message(Diagnostic({SYNTAX_ERROR}, Some(Location(38, 20)))),
      normalize_error_message(Diagnostic({PROOF_FAILURE}, Some(Location(12, 3)))) }

HistoriesTried == UNION { [1..n -> Fingerprints] : n \in 0..MaxHistory }

\* the state dicts should_continue is applied to: a compile outcome, an error
\* history and any strategy, or none
StatesTried ==
    { [AgentState(Some("analysis"), Some("code"), 1, None, success, history, None,
                  strategy, None) EXCEPT !.compile_success = success] :
        success \in BOOLEAN,
        history \in HistoriesTried,
        strategy \in {None} \cup {Some(x) : x \in ErrorStrategy} }

DecideVarsOnly == UNCHANGED <<st, ag, route, disk, files, tasks, req, nreq>>

InitDecide ==
    /\ op = "none"
    /\ pre = None
    /\ ret = None
    /\ st = None
    /\ ag = None
    /\ route = None
    /\ disk = None
    /\ files = {}
    /\ tasks = << >>
    /\ req = None
    /\ nreq = 0

CallClassifyError ==
    /\ \E message \in DiagnosticsClassified :
          /\ pre' = [message |-> message]
          /\ ret' = classify_error(message)
    /\ op' = "classify_error"
    /\ DecideVarsOnly

CallShouldRetry ==
    /\ \E policy \in PoliciesTried, level \in ErrorLevel, attempt_count \in 0..MaxAttemptCount :
          /\ pre' = [policy |-> policy, level |-> level, attempt_count |-> attempt_count]
          /\ ret' = should_retry(policy, level, attempt_count)
    /\ op' = "should_retry"
    /\ DecideVarsOnly

CallDecideStrategy ==
    /\ \E policy \in PoliciesTried, message \in DiagnosticsClassified,
          attempt_count \in 0..MaxAttemptCount :
          /\ pre' = [policy |-> policy, level |-> classify_error(message).level,
                     attempt_count |-> attempt_count]
          /\ ret' = decide_strategy(policy, classify_error(message), attempt_count)
    /\ op' = "decide_strategy"
    /\ DecideVarsOnly

CallShouldContinue ==
    /\ \E state \in StatesTried :
          /\ pre' = state
          /\ ret' = should_continue(state)
    /\ op' = "should_continue"
    /\ DecideVarsOnly

NextDecide ==
    \/ CallClassifyError
    \/ CallShouldRetry
    \/ CallDecideStrategy
    \/ CallShouldContinue

SpecDecide == InitDecide /\ [][NextDecide]_vars

----------------------------------------------------------------------------
(* SpecGraph: one app.invoke of the compiled graph, from any AgentState     *)
(* run_workflow can hand it, to END.  LangGraph runs the scheduled node as   *)
(* long as there is one, which is the weak fairness of graph_node.          *)

\* the AgentState dicts run_workflow builds from a stored WorkflowState
StatesInvoked ==
    { AgentState(None, None, compile_attempts, None, FALSE, history, None, None, None) :
        compile_attempts \in 0..MaxAttemptCount, history \in HistoriesTried }

GraphVarsOnly == UNCHANGED <<st, op, ret, pre, disk, tasks, req, nreq>>

InitGraph ==
    /\ ag \in {Some(state) : state \in StatesInvoked}
    /\ route = [NoRoute EXCEPT !.kind = "invoke", !.node = "analyze"]
    /\ files = {}
    /\ st = None
    /\ op = "none"
    /\ ret = None
    /\ pre = None
    /\ disk = None
    /\ tasks = << >>
    /\ req = None
    /\ nreq = 0

\* app.invoke runs the node scheduled next
graph_node ==
    /\ route.node \notin {"END", "raised"}
    /\ \E o \in node_outcomes(ag[1], route.node, files, DiagnosticsRun, RenderingsSeen) :
          /\ ag' = Some(o.ag)
          /\ files' = o.files
          /\ route' = [route EXCEPT !.node = o.node, !.edge = o.edge,
                                    !.checked = o.checked]
    /\ GraphVarsOnly

NextGraph == graph_node

SpecGraph == InitGraph /\ [][NextGraph]_vars /\ WF_vars(graph_node)

----------------------------------------------------------------------------
(* SpecBuffers: the two bounded lists of the AgentState, error_history and   *)
(* logs, under failed compiles and log appends.  ag is the state dict, ret   *)
(* its "logs" key, pre the record of everything pushed so far.              *)

LOGS_KEPT == 100

MaxFailedCompiles == 7
MaxLogAppends == 103

\* add_log that trims before it appends
add_log_trim_first(logs, log_entry) ==
    Append(IF Len(logs) > LOGS_KEPT THEN LastN(logs, LOGS_KEPT) ELSE logs, log_entry)

\* add_log: log_entry is the timestamped message
add_log(logs, log_entry) ==
    LET appended == Append(logs, log_entry)
    IN IF Len(appended) > LOGS_KEPT THEN LastN(appended, LOGS_KEPT) ELSE appended

\* the k-th log entry written: entries carry their time of writing
LogEntry(k) == [at |-> k]

RECURSIVE add_logs(_, _, _)
\* n consecutive add_log calls, the first writing entry number k
add_logs(logs, k, n) ==
    IF n = 0 THEN logs ELSE add_logs(add_log(logs, LogEntry(k)), k + 1, n - 1)

\* add_log calls of typecheck_code when the compile fails: start, failure,
\* classification, level, strategy
LOGS_PER_FAILED_COMPILE == 5

DiagnosticsBuffered ==
    { Diagnostic({SYNTAX_ERROR}, Some(Location(38, 20))),
      Diagnostic({SYNTAX_ERROR}, Some(Location(40, 1))) }

BuffersVarsOnly == UNCHANGED <<st, route, disk, files, tasks, req, nreq>>

InitBuffers ==
    /\ op = "none"
    /\ ag = Some(AgentState(Some("analysis"), Some("code"), 0, None, FALSE, << >>, None, None, None))
    /\ ret = << >>
    /\ pre = [failed |-> << >>, logged |-> 0]
    /\ st = None
    /\ route = None
    /\ disk = None
    /\ files = {}
    /\ tasks = << >>
    /\ req = None
    /\ nreq = 0

\* the typecheck node when the compile fails
failed_compile ==
    /\ Len(pre.failed) < MaxFailedCompiles
    /\ \E output \in DiagnosticsBuffered :
          /\ ag' = Some(typecheck_code(ag[1], FALSE, output))
          /\ pre' = [failed |-> Append(pre.failed, normalize_error_message(output)),
                     logged |-> pre.logged + LOGS_PER_FAILED_COMPILE]
    /\ ret' = add_logs(ret, pre.logged + 1, LOGS_PER_FAILED_COMPILE)
    /\ op' = "typecheck_code"
    /\ BuffersVarsOnly

\* an add_log call of any other node
log_append ==
    /\ pre.logged < MaxLogAppends
    /\ ret' = add_log(ret, LogEntry(pre.logged + 1))
    /\ pre' = [pre EXCEPT !.logged = @ + 1]
    /\ op' = "add_log"
    /\ UNCHANGED ag
    /\ BuffersVarsOnly

NextBuffers ==
    \/ failed_compile
    \/ log_append

SpecBuffers == InitBuffers /\ [][NextBuffers]_vars

----------------------------------------------------------------------------
(* SpecNormalize: normalize_error_message on diagnostic texts               *)
(* A text is a sequence of characters (one-character strings).              *)

NORMALIZED_LENGTH == 150

DigitChars == {"0", "1", "2", "3", "4", "5", "6", "7", "8", "9"}

LetterChars == {"D", "F", "a", "d", "i", "m", "n", "o", "r", "s", "x", "_"}

\* [\w/]
PathChars == LetterChars \cup DigitChars \cup {"/"}

\* \s
SpaceChars == {" ", "\n", "\t"}

AllChars == PathChars \cup SpaceChars \cup {".", ":", "-"}

RECURSIVE RunStop(_, _, _)
\* the index after the longest run of characters of `class` that starts at i
RunStop(s, i, class) ==
    IF i > Len(s) \/ s[i] \notin class THEN i ELSE RunStop(s, i + 1, class)

HasAt(s, i, literal) ==
    /\ i + Len(literal) - 1 <= Len(s)
    /\ SubSeq(s, i, i + Len(literal) - 1) = literal

\* [\w/]+\.idr:\d+:\d+(?:--\d+:\d+)? matched at position i: the index after the
\* match, 0 when it does not match there
LocationMatchEnd(s, i) ==
    LET j == RunStop(s, i, PathChars)
        a == j + 5
        b == RunStop(s, a, DigitChars)
        c == b + 1
        e == RunStop(s, c, DigitChars)
        f == e + 2
        g == RunStop(s, f, DigitChars)
        h == g + 1
        k == RunStop(s, h, DigitChars)
    IN IF j = i \/ ~HasAt(s, j, <<".", "i", "d", "r", ":">>) THEN 0
       ELSE IF a > Len(s) \/ b = a \/ ~HasAt(s, b, <<":">>) THEN 0
       ELSE IF c > Len(s) \/ e = c THEN 0
       ELSE IF ~HasAt(s, e, <<"-", "-">>) \/ f > Len(s) \/ g = f
                \/ ~HasAt(s, g, <<":">>) \/ h > Len(s) \/ k = h
            THEN e
       ELSE k

\* simplify_location that keeps the file name only
simplify_location_file_only(path) ==
    LET slashes == {i \in 1..Len(path) : path[i] = "/"}
        start == IF slashes = {} THEN 1
                 ELSE 1 + CHOOSE i \in slashes : \A k \in slashes : k <= i
        colon == CHOOSE i \in start..Len(path) :
                    path[i] = ":" /\ \A k \in start..(i - 1) : path[k] # ":"
    IN SubSeq(path, start, colon - 1)

\* simplify_location: the file name after the last "/", ":" and the first line
\* number of the matched token
simplify_location(path) ==
    LET slashes == {i \in 1..Len(path) : path[i] = "/"}
        start == IF slashes = {} THEN 1
                 ELSE 1 + CHOOSE i \in slashes : \A k \in slashes : k <= i
        colon == CHOOSE i \in start..Len(path) :
                    path[i] = ":" /\ \A k \in start..(i - 1) : path[k] # ":"
    IN SubSeq(path, start, colon - 1) \o <<":">>
          \o SubSeq(path, colon + 1, RunStop(path, colon + 1, DigitChars) - 1)

RECURSIVE sub_locations(_, _)
\* re.sub of the location pattern with simplify_location, from position i on.
\* Where the pattern does not match at i it does not match inside the run of
\* [\w/] that starts at i either (the run ends at the same place), so the run is
\* copied whole.
sub_locations(s, i) ==
    IF i > Len(s) THEN << >>
    ELSE LET e == LocationMatchEnd(s, i)
             j == RunStop(s, i, PathChars)
         IN IF e # 0
            THEN simplify_location(SubSeq(s, i, e - 1)) \o sub_locations(s, e)
            ELSE IF j = i THEN <<s[i]>> \o sub_locations(s, i + 1)
            ELSE SubSeq(s, i, j - 1) \o sub_locations(s, j)

RECURSIVE sub_spaces(_, _)
\* re.sub(r'\s+', ' ', ...), from position i on
sub_spaces(s, i) ==
    IF i > Len(s) THEN << >>
    ELSE IF s[i] \in SpaceChars
    THEN <<" ">> \o sub_spaces(s, RunStop(s, i, SpaceChars))
    ELSE LET j == RunStop(s, i, AllChars \ SpaceChars)
         IN SubSeq(s, i, j - 1) \o sub_spaces(s, j)

\* str.strip()
strip(s) ==
    LET kept == {i \in 1..Len(s) : s[i] \notin SpaceChars}
    IN IF kept = {} THEN << >>
       ELSE SubSeq(s, CHOOSE i \in kept : \A k \in kept : i <= k,
                      CHOOSE i \in kept : \A k \in kept : k <= i)

\* normalize_error_message on a text
normalize_error_text(error_msg) ==
    LET normalized == sub_spaces(sub_locations(error_msg, 1), 1)
        stripped == strip(normalized)
    IN SubSeq(stripped, 1, IF Len(stripped) < NORMALIZED_LENGTH
                           THEN Len(stripped) ELSE NORMALIZED_LENGTH)

PreambleLong == 160
BodyLong == 135
MaxBodySpread == 6

Word(n) == [i \in 1..n |-> "x"]

LineDigits(line) == IF line = 38 THEN <<"3", "8">> ELSE <<"4", "0">>

\* a compiler diagnostic: [preamble ]<dir>Foo.idr:<line>:<column part><tail>
\* <separator>xxx...x xxx
DiagnosticText(preamble, dir, line, span, tail, separator, body) ==
    (IF preamble = 0 THEN << >> ELSE Word(preamble) \o <<" ">>)
    \o dir \o <<"F", "o", "o", ".", "i", "d", "r", ":">> \o LineDigits(line) \o <<":">>
    \o (IF span THEN <<"2", "0", "-", "-">> \o LineDigits(line) \o <<":", "2", "1">>
        ELSE <<"5">>)
    \o tail \o separator \o Word(body) \o <<" ">> \o Word(3)

NormalizeVarsOnly == UNCHANGED <<st, ag, route, disk, files, tasks, req, nreq>>

\* pairs of diagnostics x and y that are alike except for the line and the
\* column part of their location
DiagnosticPairs ==
    { [x |-> DiagnosticText(preamble, dir, lines[1], spans[1], tail, separator, body),
       y |-> DiagnosticText(preamble, dir, lines[2], spans[2], tail, separator, body),
       preamble |-> preamble, tail |-> tail, same_line |-> (lines[1] = lines[2])] :
        preamble \in {0, PreambleLong},
        dir \in {<< >>, <<"D", "o", "m", "a", "i", "n", "s", "/">>},
        tail \in {<< >>, <<":", "7">>},
        separator \in {<<" ">>, <<"\n", " ", " ">>},
        body \in {3} \cup (BodyLong..(BodyLong + MaxBodySpread)),
        lines \in {38, 40} \X {38, 40},
        spans \in BOOLEAN \X BOOLEAN }

InitNormalize ==
    /\ op = "none"
    /\ pre \in DiagnosticPairs
    /\ ret = None
    /\ st = None
    /\ ag = None
    /\ route = None
    /\ disk = None
    /\ files = {}
    /\ tasks = << >>
    /\ req = None
    /\ nreq = 0

\* normalize_error_message applied to both diagnostics, and once more to the
\* fingerprint of x
CallNormalize ==
    /\ op = "none"
    /\ ret' = [x |-> normalize_error_text(pre.x),
               y |-> normalize_error_text(pre.y),
               xx |-> normalize_error_text(normalize_error_text(pre.x))]
    /\ op' = "normalize_error_message"
    /\ UNCHANGED pre
    /\ NormalizeVarsOnly

NextNormalize == CallNormalize

SpecNormalize == InitNormalize /\ [][NextNormalize]_vars

----------------------------------------------------------------------------
(* SpecPhase: one WorkflowState object and the calls made on it             *)

\* the artifact fields a collaborator result fills in, with a value for each
ArtifactValue ==
    [ user_prompt       |-> Some(<<"prompt">>),
      reference_docs    |-> <<"doc.pdf">>,
      analysis_result   |-> Some("Done"),
      spec_code         |-> Some("code"),
      spec_file         |-> Some("Domains/Test.idr"),
      documentable_impl |-> Some("documentable"),
      pipeline_impl     |-> Some("pipeline"),
      draft_text        |-> Some("text"),
      draft_markdown    |-> Some("markdown"),
      user_satisfaction |-> Some(UserSatisfaction(FALSE, Some("revise"))) ]

ArtifactFields == DOMAIN ArtifactValue

CompileOutcomes == {CompileResult(TRUE, None), CompileResult(FALSE, Some("Error"))}

MAX_COMPILE_ATTEMPTS == 5

MaxCompileAttempts == 60

can_retry_compile_inclusive(state) == state.compile_attempts <= MAX_COMPILE_ATTEMPTS

can_retry_compile(state) == state.compile_attempts < MAX_COMPILE_ATTEMPTS

increment_compile_attempts(state) == [state EXCEPT !.compile_attempts = @ + 1]

\* Phase.X.value: the string label json.dump writes for the enum member
PhaseValue(phase) == [value |-> phase]

\* asdict of a nested dataclass: the dict json.dump writes as an object
asdict(record) == [dict |-> record]

\* WorkflowState.save: the content of workflow_state.json
WorkflowState_save(state) ==
    [state EXCEPT !.current_phase = PhaseValue(@),
                  !.compile_result = IF @ # None THEN Some(asdict(@[1])) ELSE @,
                  !.user_satisfaction = IF @ # None THEN Some(asdict(@[1])) ELSE @]

\* WorkflowState.load that takes a failed compile result for an absent one
WorkflowState_load_drops_failure(file) ==
    IF file = None THEN None
    ELSE Some([file[1] EXCEPT
                 !.current_phase = CHOOSE phase \in Phase : PhaseValue(phase) = @,
                 !.compile_result = IF @ # None /\ @[1].dict.success
                                    THEN Some(@[1].dict) ELSE None,
                 !.user_satisfaction = IF @ # None THEN Some(@[1].dict) ELSE @])

\* WorkflowState.load: None when the file does not exist, else the state built
\* from the JSON data
WorkflowState_load(file) ==
    IF file = None THEN None
    ELSE Some([file[1] EXCEPT
                 !.current_phase = CHOOSE phase \in Phase : PhaseValue(phase) = @,
                 !.compile_result = IF @ # None THEN Some(@[1].dict) ELSE @,
                 !.user_satisfaction = IF @ # None THEN Some(@[1].dict) ELSE @])

PhaseVarsOnly == UNCHANGED <<ag, route, disk, files, tasks, req, nreq>>

InitPhase ==
    /\ \E user_prompt \in {None, Some(<<"prompt">>)}, reference_docs \in {<< >>, <<"doc.pdf">>} :
          st = create_initial_state(user_prompt, reference_docs)
    /\ pre = st
    /\ op = "create_initial_state"
    /\ ret = FALSE
    /\ ag = None
    /\ route = None
    /\ disk = None
    /\ files = {}
    /\ tasks = << >>
    /\ req = None
    /\ nreq = 0

\* state.<field> = <value>
SetArtifact ==
    /\ \E f \in ArtifactFields :
          /\ st[f] # ArtifactValue[f]
          /\ st' = [st EXCEPT ![f] = ArtifactValue[f]]
    /\ pre' = st'
    /\ op' = "set_artifact"
    /\ ret' = FALSE
    /\ PhaseVarsOnly

\* state.compile_result = CompileResult(...)
SetCompileResult ==
    /\ \E r \in CompileOutcomes :
          /\ st.compile_result # Some(r)
          /\ st' = [st EXCEPT !.compile_result = Some(r)]
    /\ pre' = st'
    /\ op' = "set_compile_result"
    /\ ret' = FALSE
    /\ PhaseVarsOnly

\* state.current_phase = Phase.X, as the tests and the control surface assign it
SetPhase ==
    /\ \E p \in Phase :
          /\ st.current_phase # p
          /\ st' = [st EXCEPT !.current_phase = p]
    /\ pre' = st'
    /\ op' = "set_phase"
    /\ ret' = FALSE
    /\ PhaseVarsOnly

CallCanAdvance ==
    /\ pre' = st
    /\ st' = st
    /\ op' = "can_advance"
    /\ ret' = can_advance(st)
    /\ PhaseVarsOnly

CallNextPhase ==
    /\ pre' = st
    /\ st' = st
    /\ op' = "next_phase"
    /\ ret' = next_phase(st.current_phase)
    /\ PhaseVarsOnly

CallAdvance ==
    /\ pre' = st
    /\ st' = advance(st).state
    /\ op' = "advance"
    /\ ret' = advance(st).result
    /\ PhaseVarsOnly

CallIncrementCompileAttempts ==
    /\ st.compile_attempts < MaxCompileAttempts
    /\ pre' = st
    /\ st' = increment_compile_attempts(st)
    /\ op' = "increment_compile_attempts"
    /\ ret' = FALSE
    /\ PhaseVarsOnly

CallCanRetryCompile ==
    /\ pre' = st
    /\ st' = st
    /\ op' = "can_retry_compile"
    /\ ret' = can_retry_compile(st)
    /\ PhaseVarsOnly

\* state.save(output_dir) followed by WorkflowState.load of the same project
\* key, or the load of a key that was never saved
CallSaveLoad ==
    /\ pre' = st
    /\ st' = st
    /\ op' = "save_load"
    /\ \E saved \in BOOLEAN :
          ret' = [saved |-> saved,
                  loaded |-> WorkflowState_load(IF saved THEN Some(WorkflowState_save(st))
                                                ELSE None)]
    /\ PhaseVarsOnly

NextPhase ==
    \/ SetArtifact
    \/ SetCompileResult
    \/ SetPhase
    \/ CallCanAdvance
    \/ CallNextPhase
    \/ CallAdvance
    \/ CallSaveLoad

SpecPhase == InitPhase /\ [][NextPhase]_vars

----------------------------------------------------------------------------
(* SpecAttempts: the compile-attempt counter of one WorkflowState object    *)

InitAttempts ==
    /\ st = create_initial_state(Some(<<"prompt">>), <<"doc.pdf">>)
    /\ pre = st
    /\ op = "create_initial_state"
    /\ ret = FALSE
    /\ ag = None
    /\ route = None
    /\ disk = None
    /\ files = {}
    /\ tasks = << >>
    /\ req = None
    /\ nreq = 0

NextAttempts ==
    \/ CallIncrementCompileAttempts
    \/ CallCanRetryCompile

SpecAttempts == InitAttempts /\ [][NextAttempts]_vars

----------------------------------------------------------------------------
(* Claims on the phase machine                                              *)

PhaseIndex(p) == CHOOSE i \in 1..Len(PhaseOrder) : PhaseOrder[i] = p

\* the table as the claim words it: the next listed phase, except at the two ends
ListedSuccessor(p) ==
    IF p = REFINEMENT THEN DRAFT
    ELSE IF p = FINAL THEN FINAL
    ELSE PhaseOrder[PhaseIndex(p) + 1]

\* C1: next_phase is the fixed table: every phase from Input to Feedback goes to
\* the next listed phase, Refinement goes back to Draft, Final stays Final.
C1_NextPhaseTable ==
    op = "next_phase" => ret = ListedSuccessor(st.current_phase)

C1_Witness ==
    op = "next_phase" /\ st.current_phase = REFINEMENT /\ ret = DRAFT

\* C2: advance() with the completion predicate false returns False and changes
\* nothing; with it true it returns True and changes current_phase only, to
\* next_phase(current_phase).
C2_AdvanceFrame ==
    op = "advance" =>
        IF can_advance(pre)
        THEN /\ ret = TRUE
             /\ st = [pre EXCEPT !.current_phase = next_phase(pre.current_phase)]
        ELSE /\ ret = FALSE
             /\ st = pre

C2_Witness ==
    /\ op = "advance"
    /\ ret = FALSE
    /\ pre.current_phase = ANALYSIS
    /\ pre.analysis_result = None
    /\ st.current_phase = ANALYSIS

\* the completion predicate of each phase, as the claim lists them
CompletionPredicate(s) ==
    CASE s.current_phase = INPUT ->
            s.user_prompt # None /\ s.reference_docs # << >>
      [] s.current_phase = ANALYSIS -> s.analysis_result # None
      [] s.current_phase = SPEC_GENERATION ->
            s.spec_code # None /\ s.spec_file # None
      [] s.current_phase = COMPILATION ->
            s.compile_result # None /\ s.compile_result[1].success = TRUE
      [] s.current_phase = DOC_IMPL ->
            s.documentable_impl # None /\ s.pipeline_impl # None
      [] s.current_phase = DRAFT ->
            s.draft_text # None \/ s.draft_markdown # None
      [] s.current_phase = REFINEMENT -> s.user_satisfaction # None
      [] s.current_phase \in {FEEDBACK, FINAL} -> TRUE

\* C3: can_advance(state) is the completion predicate of the current phase.
C3_CanAdvance ==
    op = "can_advance" => ret = CompletionPredicate(st)

C3_Witness ==
    /\ op = "can_advance"
    /\ st.current_phase = COMPILATION
    /\ st.compile_result = Some(CompileResult(FALSE, Some("Error")))
    /\ ret = FALSE

----------------------------------------------------------------------------
(* The Typecheck fan-out (SpecRun)                                          *)

FanOut == route.checked # None

Checked == route.checked[1]

LastThreeEqual(h) ==
    /\ Len(h) >= 3
    /\ h[Len(h)] = h[Len(h) - 1]
    /\ h[Len(h) - 1] = h[Len(h) - 2]

\* C8: after a failed compile has appended its normalized diagnostic to
\* error_history, the guard pauses the run (is_paused = true, edge ask_user) if
\* and only if error_history has at least three entries and the last three are
\* equal; in particular two equal entries followed by a different one do not
\* pause it.
C8_GuardIff ==
    (FanOut /\ ~Checked.compile_success) =>
        LET h == Checked.error_history
        IN /\ Len(h) >= 1
           /\ h[Len(h)] = normalize_error_message(Checked.last_error[1])
           /\ ag[1].is_paused <=> LastThreeEqual(h)
           /\ ag[1].is_paused => route.edge = Some("ask_user")

\* the guard has just paused a run on three equal fingerprints whose raw
\* diagnostics were not all at the same column
C8_Witness ==
    /\ FanOut
    /\ ~Checked.compile_success
    /\ LastThreeEqual(Checked.error_history)
    /\ ag[1].is_paused
    /\ route.edge = Some("ask_user")

\* two equal entries followed by a different one: the run is not paused
C8_TwoThenDifferent ==
    /\ FanOut
    /\ ~Checked.compile_success
    /\ LET h == Checked.error_history
       IN /\ Len(h) >= 3
          /\ h[Len(h) - 1] = h[Len(h) - 2]
          /\ h[Len(h)] # h[Len(h) - 1]
    /\ ~ag[1].is_paused

\* the edge the strategy alone selects
StrategyTable(strategy) ==
    IF strategy = Some(ASK_USER) THEN "ask_user"
    ELSE IF strategy = Some(FALLBACK) THEN "finish"
    ELSE IF strategy = Some(REANALYZE) THEN "reanalyze"
    ELSE IF strategy = Some(TERMINATE) THEN "fail"
    ELSE "fix_error"

\* C9: at the Typecheck fan-out a successful compile takes the finish edge;
\* otherwise, if the last three error_history entries are equal, the edge is
\* ask_user whatever error_strategy holds; only otherwise does error_strategy
\* select the edge.
C9_Precedence ==
    FanOut =>
        route.edge = Some(IF Checked.compile_success THEN "finish"
                          ELSE IF LastThreeEqual(Checked.error_history) THEN "ask_user"
                          ELSE StrategyTable(Checked.error_strategy))

\* the guard overrides a strategy that would have ended or continued the run
C9_Witness ==
    /\ FanOut
    /\ ~Checked.compile_success
    /\ LastThreeEqual(Checked.error_history)
    /\ Checked.error_strategy \in {Some(TERMINATE), Some(FALLBACK)}
    /\ route.edge = Some("ask_user")

\* the guard overrides auto_fix as well (after a restart reset compile_attempts)
C9_GuardOverAutoFix ==
    /\ FanOut
    /\ LastThreeEqual(Checked.error_history)
    /\ Checked.error_strategy = Some(AUTO_FIX)
    /\ route.edge = Some("ask_user")

\* the options a paused run offers
OptionsOffered(state) == {state.resume_options[i] : i \in 1..Len(state.resume_options)}

\* C11: on a forced pause the resume_options offered are exactly the options
\* resume-after-pause accepts: retry_with_new_prompt, retry_with_more_docs,
\* skip_validation, manual_fix and cancel.
C11_MenuIsAccepted ==
    (ag # None /\ ag[1].is_paused) => OptionsOffered(ag[1]) = AUTOPAUSE_OPTIONS


\* the compiles of the run in progress: every compile before the current one
\* failed, and st keeps the compile_attempts the run started with
FreshRun == st.compile_attempts = 0

FailedCompile == FanOut /\ ~Checked.compile_success

LevelChecked == Checked.classified_error[1].level

\* C13: in a run started with compile_attempts = 0 whose compiles all fail with
\* a Syntax diagnostic and do not trip the guard, the strategy after the 1st,
\* 2nd and 3rd failed compile is auto_fix and after the 4th it is terminate.
C13_SyntaxRetries ==
    (FailedCompile /\ FreshRun /\ LevelChecked = SYNTAX_ERROR
        /\ ~LastThreeEqual(Checked.error_history)) =>
        /\ Checked.compile_attempts <= 3 => Checked.error_strategy = Some(AUTO_FIX)
        /\ Checked.compile_attempts = 4 => Checked.error_strategy = Some(TERMINATE)

\* C14: in a run started with compile_attempts = 0, a first failed compile
\* classified Proof routes to ask_user; fallback is chosen only on a later Proof
\* failure.
C14_ProofAsksFirst ==
    (FailedCompile /\ FreshRun /\ LevelChecked = PROOF_FAILURE
        /\ Checked.compile_attempts = 1) =>
        /\ Checked.error_strategy = Some(ASK_USER)
        /\ route.edge = Some("ask_user")

\* C15: in a run started with compile_attempts = 0, a first failed compile
\* classified Domain routes to reanalyze (and from there back to analyze).
C15_DomainReanalyzes ==
    (FailedCompile /\ FreshRun /\ LevelChecked = DOMAIN_ERROR
        /\ Checked.compile_attempts = 1) =>
        /\ Checked.error_strategy = Some(REANALYZE)
        /\ route.edge = Some("reanalyze")
        /\ route.node = "reanalyze"

\* C16: a run that took the finish edge on the fallback strategy and went
\* through the three generation nodes returns a WorkflowState that is not a
\* failure: compile_result is not a failed one and the phase is past Compilation.
C16_FallbackNotFailure ==
    (ret # None /\ ~ret[1].compile_success /\ ~ret[1].is_paused
        /\ ret[1].error_strategy = Some(FALLBACK)) =>
        /\ {DOCUMENTABLE_FILE, PIPELINE_FILE} \subseteq files
        /\ ~(st.compile_result # None /\ ~st.compile_result[1].success)
        /\ PhaseIndex(st.current_phase) > PhaseIndex(COMPILATION)

----------------------------------------------------------------------------
(* The service (Spec)                                                       *)

RunsInFlight == {t \in Slots : ~Idle(t)}

RunEnded == op.status \in {"returned", "raised", "load raised"}

\* C4: every persisted WorkflowState with completed = true has
\* current_phase = Final.
C4_CompletedIsFinal ==
    Loadable(disk) => (disk.rec.completed => disk.rec.current_phase = FINAL)

\* a persisted state with completed = true
C4_Witness == Loadable(disk) /\ disk.rec.completed

\* C5: at most one orchestrator run of the project is in flight at any time.
C5_AtMostOneRun == Cardinality(RunsInFlight) <= 1

\* C6: while a background run is in flight the persisted is_active is true.
C6_ActiveWhileInFlight ==
    (RunsInFlight # {} /\ Loadable(disk)) => disk.rec.is_active

\* C7: once a background run has ended, normally or through an exception, and
\* nothing else is in flight, the persisted is_active is false.
C7_InactiveAfterRun ==
    (RunEnded /\ RunsInFlight = {} /\ req = None) =>
        (Loadable(disk) /\ ~disk.rec.is_active)

\* C10: when a run in which the guard tripped has returned and its caller has
\* saved, the persisted WorkflowState is paused, with pause_reason,
\* error_suggestion and resume_options populated.
C10_PausePersisted ==
    (op.status = "returned" /\ op.tripped) =>
        /\ Loadable(disk)
        /\ disk.rec.is_paused
        /\ disk.rec.pause_reason # None
        /\ disk.rec.error_suggestion # None
        /\ disk.rec.resume_options # << >>

----------------------------------------------------------------------------
(* The classifier and the retry engine (SpecDecide)                         *)

C17_SyntaxDecision ==
    /\ (op = "decide_strategy" /\ pre.level = SYNTAX_ERROR) =>
          ret = IF pre.attempt_count < pre.policy.max_syntax_retries
                THEN AUTO_FIX ELSE TERMINATE
    /\ (op = "decide_strategy" /\ pre.level = SYNTAX_ERROR
          /\ pre.policy = DEFAULT_RETRY_POLICY) =>
          ret = IF pre.attempt_count < 3 THEN AUTO_FIX ELSE TERMINATE
    /\ (op = "should_retry" /\ pre.level = SYNTAX_ERROR) =>
          ret = (pre.attempt_count < pre.policy.max_syntax_retries)

C17_Witness ==
    /\ op = "decide_strategy"
    /\ pre.level = SYNTAX_ERROR
    /\ pre.policy = DEFAULT_RETRY_POLICY
    /\ pre.attempt_count = 3
    /\ ret = TERMINATE

\* C18: on a Proof-level error decide_strategy returns ask_user at attempt
\* count 0 and fallback at every count >= 1, whatever the policy.
C18_ProofDecision ==
    (op = "decide_strategy" /\ pre.level = PROOF_FAILURE) =>
        ret = IF pre.attempt_count = 0 THEN ASK_USER ELSE FALLBACK

C18_Witness ==
    /\ op = "decide_strategy"
    /\ pre.level = PROOF_FAILURE
    /\ pre.policy = AGGRESSIVE_RETRY_POLICY
    /\ pre.attempt_count = 1
    /\ ret = FALLBACK

\* C19: on a Domain-level error decide_strategy returns reanalyze at attempt
\* count 0 and terminate afterwards; on an Unknown-level error ask_user at 0 and
\* terminate afterwards; auto_fix is returned for Syntax only.
C19_DomainUnknownDecision ==
    op = "decide_strategy" =>
        /\ pre.level = DOMAIN_ERROR =>
              ret = IF pre.attempt_count = 0 THEN REANALYZE ELSE TERMINATE
        /\ pre.level = UNKNOWN =>
              ret = IF pre.attempt_count = 0 THEN ASK_USER ELSE TERMINATE
        /\ ret = AUTO_FIX => pre.level = SYNTAX_ERROR

C19_Witness ==
    /\ op = "decide_strategy"
    /\ pre.level = DOMAIN_ERROR
    /\ pre.policy = AGGRESSIVE_RETRY_POLICY
    /\ pre.attempt_count = 1
    /\ ret = TERMINATE

\* the level by strict priority over the pattern sets a text matches
PriorityLevel(patterns) ==
    IF DOMAIN_ERROR \in patterns THEN DOMAIN_ERROR
    ELSE IF PROOF_FAILURE \in patterns THEN PROOF_FAILURE
    ELSE IF SYNTAX_ERROR \in patterns THEN SYNTAX_ERROR
    ELSE UNKNOWN

\* C20: classify_error answers for every diagnostic; the level is Domain if a
\* Domain pattern occurs, else Proof if a Proof pattern occurs, else Syntax if a
\* Syntax pattern occurs, else Unknown; auto_fixable is true exactly for Syntax
\* and available_actions is never empty.
C20_ClassifyPriority ==
    op = "classify_error" =>
        /\ ret.level = PriorityLevel(pre.message.patterns)
        /\ ret.auto_fixable <=> (ret.level = SYNTAX_ERROR)
        /\ ret.available_actions # << >>

C20_Witness ==
    /\ op = "classify_error"
    /\ pre.message.patterns = {DOMAIN_ERROR, SYNTAX_ERROR}
    /\ ret.level = DOMAIN_ERROR
    /\ ~ret.auto_fixable

----------------------------------------------------------------------------
(* Diagnostic fingerprints (SpecNormalize)                                  *)

\* C21: normalizing a fingerprint again gives the same fingerprint:
\* normalize(normalize(x)) = normalize(x) for every diagnostic text x.
C21_Idempotent ==
    op = "normalize_error_message" => ret.xx = ret.x

Normalized == op = "normalize_error_message"

----------------------------------------------------------------------------
(* The error history and the logs                                           *)

\* C23: whenever a compile succeeds, error_history is empty immediately
\* afterwards and classified_error and error_strategy are cleared, whatever
\* error_history held before the compile.
C23_SuccessClears ==
    [][ (/\ ag # None
         /\ route.node = "typecheck"
         /\ route'.checked # None
         /\ route'.checked[1].compile_success)
        => (/\ route'.checked[1].error_history = << >>
            /\ route'.checked[1].classified_error = None
            /\ route'.checked[1].error_strategy = None) ]_vars

\* the first run compiled successfully on its third attempt, after two failed
\* compiles had filled error_history
C23_Witness ==
    /\ nreq = 1
    /\ FanOut
    /\ Checked.compile_success
    /\ Checked.compile_attempts = 3
    /\ Checked.error_history = << >>

\* C24: after any sequence of failed compiles and log appends error_history
\* holds at most 5 entries and logs at most 100, and each holds the most recent
\* pushes in the order they were pushed (overflow evicts the oldest).
C24_BoundedFifo ==
    /\ Len(ag[1].error_history) <= 5
    /\ Len(ret) <= 100
    /\ ag[1].error_history = LastN(pre.failed, 5)
    /\ ret = LastN([k \in 1..pre.logged |-> LogEntry(k)], 100)

\* both lists have overflowed
C24_Witness ==
    /\ Len(pre.failed) > 5
    /\ pre.logged > 100
    /\ Len(ag[1].error_history) = 5
    /\ Len(ret) = 100

----------------------------------------------------------------------------
(* Persistence during a run (Spec)                                          *)

\* what a status query reads shows the updates of the nodes of run t that
\* have finished
Persisted(t) ==
    /\ Loadable(disk)
    /\ disk.rec.analysis_result = tasks[t].ag[1].analysis
    /\ disk.rec.spec_code = tasks[t].ag[1].idris_code
    /\ disk.rec.compile_attempts = tasks[t].ag[1].compile_attempts

\* C25: the WorkflowState record is written to durable storage after every node:
\* a status query between two nodes of the only running graph observes the
\* analysis result, the code and the compile attempts of the nodes that have
\* finished.
C25_SavedAfterEveryNode ==
    \A t \in Slots :
        (/\ req = None
         /\ tasks[t].pc = "invoke"
         /\ tasks[t].node \notin {"raised"}
         /\ \A u \in Slots \ {t} : Idle(u))
        => Persisted(t)

\* C26: when the LLM call raises during a run, whichever entry point launched
\* it, the run stops and the persisted state afterwards carries compile_result
\* with success = false and the error text.
C26_RaiseRecorded ==
    (op.status = "raised")
    => (/\ Loadable(disk)
        /\ disk.rec.compile_result # None
        /\ ~disk.rec.compile_result[1].success
        /\ disk.rec.compile_result[1].error_msg \in
              {Some(ExceptionText(prefix)) : prefix \in {"Workflow error: ", "Resume error: ", ""}})

----------------------------------------------------------------------------
(* The end of a run (SpecRun)                                               *)

\* the run returns from the Fail edge
ReturnsFromFail == ag # None /\ route.node = "END" /\ route.edge = Some("fail")

\* C27: when a run ends on the Fail edge the resulting WorkflowState keeps the
\* accumulated analysis_result, spec_code, error_history, feedback_history,
\* version and reference_docs, carries compile_result.success = false with the
\* last diagnostic as error_msg, and a later explicit resume accepts the project.
C27_FailKeepsState ==
    [][ ReturnsFromFail =>
          /\ st'.analysis_result = ag[1].analysis /\ ag[1].analysis # None
          /\ st'.spec_code = ag[1].idris_code /\ ag[1].idris_code # None
          /\ st'.error_history = ag[1].error_history /\ ag[1].error_history # << >>
          /\ st'.feedback_history = st.feedback_history
          /\ st'.version = st.version
          /\ st'.reference_docs = st.reference_docs
          /\ st'.compile_result # None
          /\ ~st'.compile_result[1].success
          /\ st'.compile_result[1].error_msg = ag[1].last_error
          /\ ag[1].last_error \in {Some(d) : d \in DiagnosticsRun}
          /\ ~st'.completed
          /\ st'.current_phase # INPUT ]_vars

\* a run has just returned from the Fail edge and the resume is enabled
C27_Witness ==
    /\ ag = None
    /\ ret # None
    /\ ret[1].error_strategy = Some(TERMINATE)
    /\ ~ret[1].is_paused
    /\ st.compile_result = Some(CompileResult(FALSE, ret[1].last_error))
    /\ st.spec_code # None
    /\ ~st.completed
    /\ st.current_phase # INPUT
    /\ nreq < MaxRuns

\* C28: in every reachable state, repeated plain resumes included,
\* compile_attempts never exceeds MAX_COMPILE_ATTEMPTS = 5, and the fix_error
\* node (the auto-fix LLM call) is not scheduled when compile_attempts >= 5.
C28_AttemptsCapped ==
    /\ st.compile_attempts <= 5
    /\ ag # None => ag[1].compile_attempts <= 5
    /\ (ag # None /\ route.node = "fix_error") => ag[1].compile_attempts < 5

----------------------------------------------------------------------------
(* Termination of a run (SpecGraph)                                         *)

\* C29: every run of the graph reaches END (or stops at a raising LLM call),
\* whatever diagnostics the compiles return: neither the typecheck -> fix_error
\* -> typecheck loop nor the reanalyze -> analyze loop repeats forever.
C29_RunTerminates == <>(route.node \in {"END", "raised"})

\* a run that went twice round the fix loop and ended on its third compile
C29_Witness ==
    /\ route.node = "END"
    /\ route.edge = Some("fail")
    /\ ag[1].compile_attempts = 3
    /\ Len(ag[1].error_history) = 3
    /\ ag[1].idris_code = Some("fixed code")

----------------------------------------------------------------------------
(* Versions under concurrent feedback (Spec)                                *)

\* no request is being handled and no background run is in flight
Quiescent == req = None /\ \A t \in Slots : Idle(t)

\* C30: version starts at 1 and grows by one per accepted feedback submission:
\* when the last regeneration has just finished and nothing else is running,
\* the persisted version is 1 plus the number of accepted submissions (each of
\* which added one entry to feedback_history), whatever the interleaving.
C30_VersionCounts ==
    (/\ Quiescent
     /\ op.name = "submit_feedback"
     /\ op.status \in {"returned", "raised"}
     /\ Loadable(disk))
    => disk.rec.version = 1 + Len(disk.rec.feedback_history)

\* a regeneration launched by submit_feedback ends in this step and saves
RegenerationSaves ==
    /\ op'.name = "submit_feedback"
    /\ op'.status \in {"returned", "raised"}
    /\ Loadable(disk)
    /\ Loadable(disk')

IsPrefix(s, t) == Len(s) <= Len(t) /\ SubSeq(t, 1, Len(s)) = s

----------------------------------------------------------------------------
(* Persistence and counters of the WorkflowState (SpecPhase)                *)

\* C32: save followed by load of the same project key returns a state equal to
\* the saved one in every field (the phase restored from its label, the nested
\* optional records restored as records or as absent); load of a key that was
\* never saved returns None.
C32_SaveLoadRoundTrip ==
    op = "save_load" =>
        /\ ret.saved => ret.loaded = Some(st)
        /\ ~ret.saved => ret.loaded = None

\* a state with a failed compile result and a revision request came back whole
C32_Witness ==
    /\ op = "save_load"
    /\ ret.saved
    /\ st.current_phase = COMPILATION
    /\ st.compile_result = Some(CompileResult(FALSE, Some("Error")))
    /\ st.user_satisfaction = Some(UserSatisfaction(FALSE, Some("revise")))
    /\ ret.loaded = Some(st)

\* C33: increment_compile_attempts adds exactly one to compile_attempts, also
\* at 5 and above, and can_retry_compile is true exactly when compile_attempts
\* is below 5.
C33_AttemptCounter ==
    /\ op = "increment_compile_attempts" =>
          st.compile_attempts = pre.compile_attempts + 1
    /\ op = "can_retry_compile" => (ret <=> st.compile_attempts < 5)

\* the counter was pushed past the limit
C33_Witness ==
    /\ op = "increment_compile_attempts"
    /\ pre.compile_attempts = 5
    /\ st.compile_attempts = 6
    /\ ~can_retry_compile(st)

\* advance is what the step does
AdvanceStep == op' = "advance"

\* C38: no advance() call ever moves the phase to Final from another phase, so
\* after Refinement the phase goes back to Draft, and no advance() call makes
\* workflow_complete() true.
C38_FinalUnreachableByAdvance ==
    [][ AdvanceStep =>
          /\ st'.current_phase = FINAL => st.current_phase = FINAL
          /\ st.current_phase = REFINEMENT => st'.current_phase \in {REFINEMENT, DRAFT}
          /\ workflow_complete(st') => workflow_complete(st) ]_vars

\* advance went from Refinement back to Draft
C38_Witness ==
    /\ op = "advance"
    /\ ret = TRUE
    /\ pre.current_phase = REFINEMENT
    /\ st.current_phase = DRAFT

----------------------------------------------------------------------------
(* Control operations of the service (Spec)                                 *)

\* C34: the run launched after skip-validation enters the graph at the
\* document-implementation generation: it runs neither analyze nor generate and
\* does not invoke the compiler.
C34_SkipEntersAtDocImpl ==
    \A t \in Slots :
        (tasks[t].kind = "skip_validation" /\ tasks[t].pc = "invoke")
        => tasks[t].node \in {"gen_documentable", "gen_pipeline", "gen_draft", "END", "raised"}

\* the step is a POST /resume that was rejected / that was accepted
ResumeRejected == op'.name = "resume_project" /\ op'.status = "400"

ResumeAccepted == op'.name = "resume_project" /\ op'.status = "loaded"

\* the restart-from-Analysis reset and the cleared error state in `state`
RestartReset(state) ==
    /\ state.current_phase = ANALYSIS
    /\ state.analysis_result = None
    /\ state.spec_code = None
    /\ state.compile_attempts = 0
    /\ state.compile_result = None
    /\ state.classified_error = None
    /\ state.error_strategy = None

\* C35: resume is rejected, leaving the persisted state unchanged, when the
\* project is completed or at Input; otherwise, when an updated prompt is
\* supplied, user_prompt is replaced by it and the restart-from-Analysis reset
\* is forced and the error state cleared before the run is launched.
C35_ResumeResets ==
    [][ /\ ResumeRejected =>
              /\ disk.rec.completed \/ disk.rec.current_phase = INPUT
              /\ disk' = disk /\ req' = None /\ tasks' = tasks
        /\ ResumeAccepted =>
              /\ ~disk.rec.completed /\ disk.rec.current_phase # INPUT
              /\ req'[1].prompt # None =>
                    /\ req'[1].state.user_prompt = req'[1].prompt
                    /\ RestartReset(req'[1].state) ]_vars

\* C35 as the code has it: an empty updated prompt counts as none; the prompt is
\* replaced and the reset forced when a non-empty updated prompt is supplied.
C35_ResumeResetsOnNonEmptyPrompt ==
    [][ /\ ResumeRejected =>
              /\ disk.rec.completed \/ disk.rec.current_phase = INPUT
              /\ disk' = disk /\ req' = None /\ tasks' = tasks
        /\ ResumeAccepted =>
              /\ ~disk.rec.completed /\ disk.rec.current_phase # INPUT
              /\ Given(req'[1].prompt) =>
                    /\ req'[1].state.user_prompt = req'[1].prompt
                    /\ RestartReset(req'[1].state)
              /\ ~Given(req'[1].prompt) =>
                    req'[1].state.user_prompt = disk.rec.user_prompt ]_vars

\* a resume with a new prompt on a project that had code and a failed compile
C35_Witness ==
    /\ req # None
    /\ req[1].name = "resume_project"
    /\ Given(req[1].prompt)
    /\ Loadable(disk)
    /\ disk.rec.spec_code # None
    /\ disk.rec.compile_result # None
    /\ disk.rec.compile_attempts > 0
    /\ req[1].state.user_prompt = req[1].prompt
    /\ RestartReset(req[1].state)

\* the step is a POST /abort that was rejected / the save of one that was accepted
AbortRejected == op'.name = "abort_project" /\ op'.status = "400"

AbortSaves == op'.name = "abort_project" /\ op'.status = "200" /\ Loadable(disk)

\* C36: abort is accepted only when the persisted is_active is true and is
\* otherwise rejected with the state unchanged; when accepted it sets is_active
\* to false and leaves every other field of the persisted record unchanged
\* (phase, artifacts, compile_attempts, error_history, version, completed), and
\* it does not touch a run that is in flight.
C36_AbortFrame ==
    [][ /\ AbortRejected =>
              ~disk.rec.is_active /\ disk' = disk /\ req' = None /\ tasks' = tasks
        /\ AbortSaves =>
              /\ tasks' = tasks
              /\ disk' = save([disk.rec EXCEPT !.is_active = FALSE]) ]_vars

\* the step is a POST /resume-autopause on a readable record
AutopauseStep == op'.name = "resume_from_autopause" /\ Loadable(disk)

\* C37: resume-after-pause on a project whose persisted is_paused is false is
\* rejected and changes nothing; on a paused project every accepted option but
\* cancel leaves is_paused false, pause_reason and resume_options empty,
\* error_history empty and compile_attempts 0 before the run is launched, and
\* cancel sets completed and Final without launching a run.
C37_AutopauseResume ==
    [][ AutopauseStep =>
          /\ ~disk.rec.is_paused =>
                op'.status = "400" /\ disk' = disk /\ req' = None /\ tasks' = tasks
          /\ op'.status = "loaded" =>
                /\ disk.rec.is_paused
                /\ req'[1].launch =>
                      /\ ~req'[1].state.is_paused
                      /\ req'[1].state.pause_reason = None
                      /\ req'[1].state.resume_options = << >>
                      /\ req'[1].state.error_history = << >>
                      /\ req'[1].state.compile_attempts = 0
                /\ ~req'[1].launch =>
                      /\ req'[1].state.completed
                      /\ req'[1].state.current_phase = FINAL ]_vars

\* a resume-after-pause was rejected on a project that is not paused
C37_WitnessRejected ==
    /\ op = Event("resume_from_autopause", "400")
    /\ Loadable(disk)
    /\ ~disk.rec.is_paused
    /\ disk.rec.compile_attempts > 0

\* a resume-after-pause was accepted
C37_WitnessAccepted ==
    /\ req # None
    /\ req[1].name = "resume_from_autopause"

\* C39: at every moment of every run, including the instant after the
\* Repeated-Error Guard has saved its snapshot, workflow_state.json holds a
\* record that WorkflowState.load can read, so a status query interleaved at
\* any point of a run finds a readable file.
C39_AlwaysLoadable == Loadable(disk)

\* the compiles that have failed in the run in flight: the run started with
\* st.compile_attempts and typecheck_code counts every compile once
FailedCompilesOfRun == Checked.compile_attempts - st.compile_attempts

\* C40: the Repeated-Error Guard forces a pause only in a run in which at least
\* three compiles have failed; diagnostics recorded by an earlier run that
\* ended in Fail never trip it on the first or second failed compile of a run
\* started by a plain resume.
C40_PlainResumeStartsFresh ==
    (FanOut /\ ~Checked.compile_success /\ ag[1].is_paused
            /\ route.kind = "resume_project") =>
        FailedCompilesOfRun >= 3

====
